---- MODULE Spec2Model ----
(***************************************************************************)
(* A model of the form-weaver single-page application: the form store of   *)
(* src/contexts/FormContext.tsx, the builder page of src/pages/            *)
(* FormBuilder.tsx (the paginated component, lines 589-1258), the          *)
(* dashboard of src/pages/Dashboard.tsx and the respondent page of         *)
(* src/pages/PublicForm.tsx.                                               *)
(*                                                                         *)
(* Conventions.                                                            *)
(*  - A JavaScript value that may be null/undefined is a sequence of       *)
(*    length 0 (absent) or 1 (present).                                    *)
(*  - Strings the code computes on character by character (the form title  *)
(*    that is trimmed, the answers the e-mail pattern is tested on) are    *)
(*    tuples of one-character strings; identifiers, labels and messages    *)
(*    are TLA+ strings.                                                    *)
(*  - Array indices are the code's 0-based indices.                        *)
(*  - Time is Date.now() in abstract units: the mock dates are the day of  *)
(*    January 2024 they name, the session's clock starts at Epoch.         *)
(*  - A React event handler is one atomic action.  It reads the state its  *)
(*    render closed over, queues its state updates, and the effects that   *)
(*    the updated state triggers run before the next event.                *)
(***************************************************************************)
EXTENDS Integers, Sequences, FiniteSets, TLC

VARIABLES
    forms,            \* FormContext: useState<Form[]>(mockForms)
    currentForm,      \* FormContext: useState<Form | null>(null)
    responses,        \* FormContext: useState<FormResponse[]>(mockResponses)
    clock,            \* the reading of Date.now()
    route,            \* the page the router shows
    routeId,          \* useParams().id of that page (absent on /forms/new)
    selectedFieldId,  \* FormBuilder state
    draggedIndex,     \* FormBuilder state
    formTitle,        \* FormBuilder state
    formDescription,  \* FormBuilder state
    currentPage,      \* FormBuilder state: the active editing page
    form,             \* PublicForm state: the form being filled
    answers,          \* PublicForm state
    pfCurrentPage,    \* PublicForm state: currentPage
    isSubmitted,      \* PublicForm state
    errors,           \* PublicForm state
    toast             \* title of the destructive toast shown last

storeVars   == <<forms, currentForm, responses>>
builderVars == <<selectedFieldId, draggedIndex, formTitle, formDescription, currentPage>>
publicVars  == <<form, answers, pfCurrentPage, isSubmitted, errors>>
vars == <<forms, currentForm, responses, clock, route, routeId, selectedFieldId,
          draggedIndex, formTitle, formDescription, currentPage, form, answers,
          pfCurrentPage, isSubmitted, errors, toast>>

-----------------------------------------------------------------------------
(* Bounds of the model. *)

\* how many times the clock advances in one run
MaxTicks == 1
\* handleAddField and Copy are not explored on a form that has this many fields
MaxFields == 2
\* Add Page is not explored on a form whose fields reach this page
MaxPages == 3
\* createForm is not explored once the collection has this many forms
MaxForms == 4
\* a respondent does not submit once the collection has this many responses
MaxResponses == 5
\* the fields of a form in the sessions that drag fields across pages
MaxDragFields == 3

\* the first reading of Date.now() in the session
Epoch == 100

-----------------------------------------------------------------------------
(* Generic JavaScript helpers. *)

Null == <<>>
Some(v) == <<v>>
IsNull(o) == o = <<>>
Val(o) == o[1]

\* { ...rec, ...upd }: the keys of upd replace those of rec
Merge(rec, upd) ==
    [k \in DOMAIN rec |-> IF k \in DOMAIN upd THEN upd[k] ELSE rec[k]]

\* Array.prototype.filter is SelectSeq; Array.prototype.find gives the first of
\* the elements filter keeps, or undefined
First(hits) == IF hits = <<>> THEN Null ELSE Some(Head(hits))

\* Math.max(...xs, floor)
RECURSIVE MaxOf(_, _)
MaxOf(xs, floor) ==
    IF xs = <<>> THEN floor
    ELSE LET m == MaxOf(Tail(xs), floor) IN IF Head(xs) > m THEN Head(xs) ELSE m

Min2(a, b) == IF a < b THEN a ELSE b
Max2(a, b) == IF a > b THEN a ELSE b

\* the elements of a sequence as a set
Range(s) == {s[i] : i \in DOMAIN s}

\* String.prototype.trim on a tuple of characters
IsSpace(c) == c \in {" ", "\t", "\n"}
RECURSIVE TrimStart(_)
TrimStart(s) ==
    IF s = <<>> THEN <<>>
    ELSE IF IsSpace(Head(s)) THEN TrimStart(Tail(s)) ELSE s
RECURSIVE TrimEnd(_)
TrimEnd(s) ==
    IF s = <<>> THEN <<>>
    ELSE IF IsSpace(s[Len(s)]) THEN TrimEnd(SubSeq(s, 1, Len(s) - 1)) ELSE s
\* a title test that does not trim
TrimNothing(s) == s

Trim(s) == TrimEnd(TrimStart(s))

-----------------------------------------------------------------------------
(* The mock data the store is constructed with. *)

Field(id, type, label, required, pageNumber, options) ==
    [id |-> id, type |-> type, label |-> label, required |-> required,
     pageNumber |-> pageNumber, options |-> options]

Option(id, label, value) == [id |-> id, label |-> label, value |-> value]

\* an answer: a string, or an array of strings
Str(chars) == [kind |-> "string", v |-> chars]
Arr(items) == [kind |-> "array", v |-> items]

SatisfactionOptions ==
    << Option("o1", "Very Satisfied", <<"v","e","r","y","_","s","a","t","i","s","f","i","e","d">>),
       Option("o2", "Satisfied", <<"s","a","t","i","s","f","i","e","d">>),
       Option("o3", "Neutral", <<"n","e","u","t","r","a","l">>),
       Option("o4", "Dissatisfied", <<"d","i","s","s","a","t","i","s","f","i","e","d">>) >>

DefaultOptions ==
    << Option("opt1", "Option 1", <<"o","p","t","i","o","n","1">>),
       Option("opt2", "Option 2", <<"o","p","t","i","o","n","2">>) >>

mockForms ==
    << [id |-> "1",
        title |-> <<"C","u","s","t","o","m","e","r"," ","F","e","e","d","b","a","c","k"," ","S","u","r","v","e","y">>,
        description |-> "Help us improve our services",
        status |-> "active",
        fields |-> << Field("f1", "first_name", "First Name", TRUE, 1, <<>>),
                      Field("f2", "last_name", "Last Name", TRUE, 1, <<>>),
                      Field("f3", "email", "Email Address", TRUE, 1, <<>>),
                      Field("f4", "radio", "How satisfied are you?", TRUE, 1, SatisfactionOptions),
                      Field("f5", "textarea", "Additional Comments", FALSE, 1, <<>>) >>,
        settings |-> [emailNotifications |-> TRUE, thankYouMessage |-> "Thank you for your feedback!"],
        createdBy |-> "1", createdAt |-> 15, updatedAt |-> 15],
       [id |-> "2",
        title |-> <<"E","v","e","n","t"," ","R","e","g","i","s","t","r","a","t","i","o","n">>,
        description |-> "Register for our upcoming workshop",
        status |-> "active",
        fields |-> << Field("f1", "first_name", "First Name", TRUE, 1, <<>>),
                      Field("f2", "email", "Email", TRUE, 1, <<>>),
                      Field("f3", "phone", "Phone Number", FALSE, 1, <<>>) >>,
        settings |-> [emailNotifications |-> TRUE, thankYouMessage |-> "You are registered!"],
        createdBy |-> "1", createdAt |-> 20, updatedAt |-> 20],
       [id |-> "3",
        title |-> <<"J","o","b"," ","A","p","p","l","i","c","a","t","i","o","n">>,
        description |-> "Apply for a position at our company",
        status |-> "inactive",
        fields |-> <<>>,
        settings |-> [emailNotifications |-> TRUE, thankYouMessage |-> "Thank you for applying!"],
        createdBy |-> "1", createdAt |-> 10, updatedAt |-> 10] >>

mockResponses ==
    << [id |-> "r1", formId |-> "1", submittedAt |-> 16,
        answers |-> [f1 |-> Str(<<"J","o","h","n">>), f2 |-> Str(<<"D","o","e">>),
                     f3 |-> Str(<<"j","o","h","n","@","e","x","a","m","p","l","e",".","c","o","m">>),
                     f4 |-> Str(<<"s","a","t","i","s","f","i","e","d">>),
                     f5 |-> Str(<<"G","r","e","a","t"," ","s","e","r","v","i","c","e","!">>)]],
       [id |-> "r2", formId |-> "1", submittedAt |-> 17,
        answers |-> [f1 |-> Str(<<"J","a","n","e">>), f2 |-> Str(<<"S","m","i","t","h">>),
                     f3 |-> Str(<<"j","a","n","e","@","e","x","a","m","p","l","e",".","c","o","m">>),
                     f4 |-> Str(<<"v","e","r","y","_","s","a","t","i","s","f","i","e","d">>),
                     f5 |-> Str(<<>>)]],
       [id |-> "r3", formId |-> "2", submittedAt |-> 21,
        answers |-> [f1 |-> Str(<<"B","o","b">>),
                     f2 |-> Str(<<"b","o","b","@","e","x","a","m","p","l","e",".","c","o","m">>),
                     f3 |-> Str(<<"+","1","2","3","4","5","6","7","8","9","0">>)]] >>

-----------------------------------------------------------------------------
(* The form store: FormContext.tsx.  Each operation is a function of the   *)
(* pending store state st = [forms, currentForm, responses] and of cf, the *)
(* currentForm the calling render closed over, as the useCallback          *)
(* closures are.                                                           *)

Store(f, c, r) == [forms |-> f, currentForm |-> c, responses |-> r]

getFormById(fs, formId) == First(SelectSeq(fs, LAMBDA f : f.id = formId))

createFormRecord(title, description, now) ==
    [id |-> ToString(now), title |-> title, description |-> description,
     status |-> "inactive", fields |-> <<>>,
     settings |-> [emailNotifications |-> FALSE,
                   thankYouMessage |-> "Thank you for your submission!"],
     createdBy |-> "1", createdAt |-> now, updatedAt |-> now]

\* a createForm that puts the new form in front of the collection
createFormInFront(st, title, description, now) ==
    [st EXCEPT !.forms = <<createFormRecord(title, description, now)>> \o @]

createForm(st, title, description, now) ==
    [st EXCEPT !.forms = Append(@, createFormRecord(title, description, now))]

\* an updateForm that merges into the stored form only
updateFormStoreOnly(st, cf, formId, updates, now) ==
    LET stamped(f) == [Merge(f, updates) EXCEPT !.updatedAt = now]
    IN  [st EXCEPT
           !.forms = [i \in DOMAIN @ |-> IF @[i].id = formId THEN stamped(@[i]) ELSE @[i]]]

\* an updateForm that stamps updatedAt on every stored form
updateFormStampingAll(st, cf, formId, updates, now) ==
    LET stamped(f) == [Merge(f, updates) EXCEPT !.updatedAt = now]
    IN  [st EXCEPT
           !.forms = [i \in DOMAIN @ |-> IF @[i].id = formId THEN stamped(@[i])
                                          ELSE [@[i] EXCEPT !.updatedAt = now]],
           !.currentForm = IF ~IsNull(cf) /\ Val(cf).id = formId
                           THEN (IF IsNull(@) THEN Null ELSE Some(stamped(Val(@))))
                           ELSE @]

updateForm(st, cf, formId, updates, now) ==
    LET stamped(f) == [Merge(f, updates) EXCEPT !.updatedAt = now]
    IN  [st EXCEPT
           !.forms = [i \in DOMAIN @ |-> IF @[i].id = formId THEN stamped(@[i]) ELSE @[i]],
           !.currentForm = IF ~IsNull(cf) /\ Val(cf).id = formId
                           THEN (IF IsNull(@) THEN Null ELSE Some(stamped(Val(@))))
                           ELSE @]

\* a deleteForm that takes the form's responses with it
deleteFormWithResponses(st, cf, formId) ==
    [st EXCEPT
       !.forms = SelectSeq(@, LAMBDA f : f.id # formId),
       !.currentForm = IF ~IsNull(cf) /\ Val(cf).id = formId THEN Null ELSE @,
       !.responses = SelectSeq(@, LAMBDA r : r.formId # formId)]

\* a deleteForm that leaves the current form alone
deleteFormKeepingCurrent(st, cf, formId) ==
    [st EXCEPT !.forms = SelectSeq(@, LAMBDA f : f.id # formId)]

deleteForm(st, cf, formId) ==
    [st EXCEPT
       !.forms = SelectSeq(@, LAMBDA f : f.id # formId),
       !.currentForm = IF ~IsNull(cf) /\ Val(cf).id = formId THEN Null ELSE @]

addField(st, cf, field, now) ==
    IF IsNull(cf) THEN st
    ELSE updateForm(st, cf, Val(cf).id, [fields |-> Append(Val(cf).fields, field)], now)

updateField(st, cf, fieldId, updates, now) ==
    IF IsNull(cf) THEN st
    ELSE LET fs == Val(cf).fields
             updatedFields == [i \in DOMAIN fs |->
                                 IF fs[i].id = fieldId THEN Merge(fs[i], updates) ELSE fs[i]]
         IN  updateForm(st, cf, Val(cf).id, [fields |-> updatedFields], now)

removeField(st, cf, fieldId, now) ==
    IF IsNull(cf) THEN st
    ELSE updateForm(st, cf, Val(cf).id,
                    [fields |-> SelectSeq(Val(cf).fields, LAMBDA f : f.id # fieldId)], now)

\* an exchange of the two positions in place of the move
spliceSwap(arr, startIndex, endIndex) ==
    [k \in DOMAIN arr |-> IF k = startIndex + 1 THEN arr[endIndex + 1]
                          ELSE IF k = endIndex + 1 THEN arr[startIndex + 1]
                          ELSE arr[k]]

\* a move that counts the target position in the array as it was before the
\* element was taken out
spliceMoveShifted(arr, startIndex, endIndex) ==
    LET removed == arr[startIndex + 1]
        rest == SubSeq(arr, 1, startIndex) \o SubSeq(arr, startIndex + 2, Len(arr))
        at == IF endIndex > startIndex THEN endIndex - 1 ELSE endIndex
    IN  SubSeq(rest, 1, at) \o <<removed>> \o SubSeq(rest, at + 1, Len(rest))

\* result.splice(startIndex, 1) then result.splice(endIndex, 0, removed), for
\* indices inside the array
spliceMove(arr, startIndex, endIndex) ==
    LET removed == arr[startIndex + 1]
        rest == SubSeq(arr, 1, startIndex) \o SubSeq(arr, startIndex + 2, Len(arr))
        at == Min2(endIndex, Len(rest))
    IN  SubSeq(rest, 1, at) \o <<removed>> \o SubSeq(rest, at + 1, Len(rest))

reorderFields(st, cf, startIndex, endIndex, now) ==
    IF IsNull(cf) THEN st
    ELSE updateForm(st, cf, Val(cf).id,
                    [fields |-> spliceMove(Val(cf).fields, startIndex, endIndex)], now)

toggleFormStatus(st, cf, formId, now) ==
    LET found == getFormById(st.forms, formId)
    IN  IF IsNull(found) THEN st
        ELSE updateForm(st, cf, formId,
                        [status |-> IF Val(found).status = "active"
                                    THEN "inactive" ELSE "active"], now)

submitResponse(st, formId, ans, now) ==
    [st EXCEPT !.responses =
        Append(@, [id |-> ToString(now), formId |-> formId, answers |-> ans,
                   submittedAt |-> now])]

-----------------------------------------------------------------------------
(* FormBuilder.tsx: what the builder derives from the current form. *)

\* FormBuilder.tsx 608-610
builderTotalPages(cf) ==
    IF ~IsNull(cf) /\ Len(Val(cf).fields) # 0
    THEN MaxOf([i \in DOMAIN Val(cf).fields |-> Val(cf).fields[i].pageNumber], 1)
    ELSE 1

\* FormBuilder.tsx 613
currentPageFields(cf, page) ==
    IF IsNull(cf) THEN <<>>
    ELSE SelectSeq(Val(cf).fields, LAMBDA f : f.pageNumber = page)

\* FormBuilder.tsx 605
selectedField(cf, sel) ==
    IF IsNull(cf) \/ IsNull(sel) THEN Null
    ELSE First(SelectSeq(Val(cf).fields, LAMBDA f : f.id = Val(sel)))

\* the palette: fieldComponents, FormBuilder.tsx 573-587
fieldComponents ==
    [first_name |-> "First Name", last_name |-> "Last Name", email |-> "Email",
     phone |-> "Phone", text |-> "Text Input", textarea |-> "Text Area",
     dropdown |-> "Dropdown", radio |-> "Radio Buttons", checkbox |-> "Checkboxes",
     date |-> "Date Picker", file |-> "File Upload", number |-> "Number",
     password |-> "Password"]

\* the field handleAddField builds, FormBuilder.tsx 649-665
newFieldOf(type, page, now) ==
    Field("field_" \o ToString(now), type,
          IF type \in DOMAIN fieldComponents THEN fieldComponents[type] ELSE "New Field",
          FALSE, page,
          IF type \in {"dropdown", "radio", "checkbox"} THEN DefaultOptions ELSE <<>>)

\* the effect of FormBuilder.tsx 616-630, run when the route's id or the forms
\* array changed: the builder's view [currentForm, formTitle, formDescription]
builderView(cf, title, description) ==
    [currentForm |-> cf, formTitle |-> title, formDescription |-> description]

loadFormEffect(fs, id, view) ==
    IF ~IsNull(id) /\ Val(id) # "new"
    THEN LET found == getFormById(fs, Val(id))
         IN  IF ~IsNull(found)
             THEN builderView(found, Val(found).title, Val(found).description)
             ELSE view
    ELSE builderView(Null, <<>>, "")

\* the Remove Page loop, FormBuilder.tsx 1104-1108: one updateField per field of
\* the rendered current form that sits above the removed page
RECURSIVE removePageLoop(_, _, _, _, _)
removePageLoop(st, cf, fs, page, now) ==
    IF fs = <<>> THEN st
    ELSE LET f == Head(fs)
             st1 == IF f.pageNumber > page
                    THEN updateField(st, cf, f.id, [pageNumber |-> f.pageNumber - 1], now)
                    ELSE st
         IN  removePageLoop(st1, cf, Tail(fs), page, now)

\* a rejection test that lets a page with a single field through
removePageRejectedOffByOne(cf, page) == Len(currentPageFields(cf, page)) > 1

\* FormBuilder.tsx 1095: the page still carries fields
removePageRejected(cf, page) == Len(currentPageFields(cf, page)) > 0

-----------------------------------------------------------------------------
(* PublicForm.tsx: pagination and validation. *)

\* PublicForm.tsx 100: [...new Set(form.fields.map(f => f.pageNumber))]
pages(fm) == {fm.fields[i].pageNumber : i \in DOMAIN fm.fields}

\* PublicForm.tsx 101
currentFields(fm, page) == SelectSeq(fm.fields, LAMBDA f : f.pageNumber = page)

\* PublicForm.tsx 102: pages.length || 1
totalPages(fm) == IF Cardinality(pages(fm)) = 0 THEN 1 ELSE Cardinality(pages(fm))

\* PublicForm.tsx 103, as Math.round shows it (line 396)
progress(page, total) == ((page - 1) * 200 + total) \div (2 * total)

\* answers[field.id]
answerOf(ans, id) == IF id \in DOMAIN ans THEN Some(ans[id]) ELSE Null

\* JavaScript truthiness of answers[field.id]: undefined and '' are falsy, every
\* array (the empty one too) is truthy
truthy(a) == ~IsNull(a) /\ (Val(a).kind = "string" => Val(a).v # <<>>)

\* String(value), as RegExp.prototype.test coerces its argument
RECURSIVE joinComma(_)
joinComma(items) ==
    IF items = <<>> THEN <<>>
    ELSE IF Len(items) = 1 THEN items[1]
    ELSE items[1] \o <<",">> \o joinComma(Tail(items))
toString(v) == IF v.kind = "string" THEN v.v ELSE joinComma(v.v)

\* /^[^\s@]+@[^\s@]+\.[^\s@]+$/.test(s), PublicForm.tsx 113-114: s splits as
\* A "@" B "." C with A, B, C non-empty and free of white space and "@"
plainChar(c) == ~IsSpace(c) /\ c # "@"

\* a pattern that asks for no "." after the "@": /^[^\s@]+@[^\s@]+$/
emailRegexNoDot(s) ==
    \E i \in 1..Len(s) :
        /\ s[i] = "@"
        /\ 1 < i /\ i < Len(s)
        /\ \A k \in 1..Len(s) : k # i => plainChar(s[k])

emailRegexTest(s) ==
    \E i \in 1..Len(s), j \in 1..Len(s) :
        /\ s[i] = "@" /\ s[j] = "."
        /\ 1 < i /\ i + 1 < j /\ j < Len(s)
        /\ \A k \in 1..Len(s) : k # i => plainChar(s[k])

put(m, k, v) == [x \in DOMAIN m \cup {k} |-> IF x = k THEN v ELSE m[x]]
remove(m, k) == [x \in DOMAIN m \ {k} |-> m[x]]
emptyMap == [x \in {} |-> <<>>]

\* validateCurrentPage, PublicForm.tsx 105-118: the errors of the page's fields
RECURSIVE validateFields(_, _, _)
validateFields(fs, ans, newErrors) ==
    IF fs = <<>> THEN newErrors
    ELSE LET f == Head(fs)
             a == answerOf(ans, f.id)
             e1 == IF f.required /\ ~truthy(a)
                   THEN put(newErrors, f.id, f.label \o " is required")
                   ELSE newErrors
             e2 == IF f.type = "email" /\ truthy(a) /\ ~emailRegexTest(toString(Val(a)))
                   THEN put(e1, f.id, "Please enter a valid email address")
                   ELSE e1
         IN  validateFields(Tail(fs), ans, e2)

validateCurrentPage(fm, page, ans) == validateFields(currentFields(fm, page), ans, emptyMap)

\* a component that keeps showing the fields after the submission
screenWithoutThankYou(fm, submitted) ==
    IF IsNull(fm) THEN "not_found"
    ELSE IF Val(fm).status = "inactive" THEN "unavailable"
    ELSE "filling"

\* a component that shows the fields of an inactive form
screenIgnoringStatus(fm, submitted) ==
    IF IsNull(fm) THEN "not_found"
    ELSE IF submitted THEN "thank_you"
    ELSE "filling"

\* PublicForm.tsx 50-98: which screen the component renders
screen(fm, submitted) ==
    IF IsNull(fm) THEN "not_found"
    ELSE IF Val(fm).status = "inactive" THEN "unavailable"
    ELSE IF submitted THEN "thank_you"
    ELSE "filling"

-----------------------------------------------------------------------------
(* The inputs a user gives. *)

\* the palette entries explored, of the thirteen of fieldComponents
Palette == {"text", "checkbox"}

\* what is typed into the title box
TitleInputs == { <<" ">>, <<"C","o","n","t","a","c","t"," ","U","s">> }

\* what is typed into a text-like input of a published form
TypedAnswers == { <<>>, <<"a","@","b",".","c","o">>,
                  <<"n","o","t","-","a","n","-","e","m","a","i","l">> }

\* an identifier of no form
UnknownId == "404"

\* the input types rendered as a text box, PublicForm.tsx 181-252 and 368
TextLike == {"text", "first_name", "last_name", "email", "phone", "number",
             "password", "textarea"}

-----------------------------------------------------------------------------
(* The state after construction: the providers hold the mock data and the  *)
(* landing page is shown; no page component is mounted.                    *)

builderInit ==
    /\ selectedFieldId = Null
    /\ draggedIndex = Null
    /\ formTitle = <<>>
    /\ formDescription = ""
    /\ currentPage = 1

publicInit ==
    /\ form = Null
    /\ answers = emptyMap
    /\ pfCurrentPage = 1
    /\ isSubmitted = FALSE
    /\ errors = emptyMap

Init ==
    /\ forms = mockForms
    /\ currentForm = Null
    /\ responses = mockResponses
    /\ clock = Epoch
    /\ route = "index"
    /\ routeId = Null
    /\ builderInit
    /\ publicInit
    /\ toast = Null

\* an unmounted component holds no state: it is the initial state again when
\* the component is mounted next
builderUnmounted ==
    /\ selectedFieldId' = Null
    /\ draggedIndex' = Null
    /\ formTitle' = <<>>
    /\ formDescription' = ""
    /\ currentPage' = 1

publicUnmounted ==
    /\ form' = Null
    /\ answers' = emptyMap
    /\ pfCurrentPage' = 1
    /\ isSubmitted' = FALSE
    /\ errors' = emptyMap

\* the store after a handler, st, as the next state
storeBecomes(st) ==
    /\ forms' = st.forms
    /\ currentForm' = st.currentForm
    /\ responses' = st.responses

theStore == Store(forms, currentForm, responses)

-----------------------------------------------------------------------------
(* Time and navigation. *)

Tick ==
    /\ clock < Epoch + MaxTicks
    /\ clock' = clock + 1
    /\ UNCHANGED <<storeVars, route, routeId, builderVars, publicVars, toast>>

\* /dashboard
OpenDashboard ==
    /\ IsNull(draggedIndex)
    /\ route # "dashboard"
    /\ route' = "dashboard"
    /\ routeId' = Null
    /\ builderUnmounted
    /\ publicUnmounted
    /\ UNCHANGED <<storeVars, clock, toast>>

\* /forms/new (id absent) and /forms/:id/edit.  The component keeps its state
\* when only the route's id changes, and the load effect runs.
OpenBuilder(id) ==
    /\ IsNull(draggedIndex)
    /\ ~(route = "builder" /\ routeId = id)
    /\ LET title == IF route = "builder" THEN formTitle ELSE <<>>
           desc  == IF route = "builder" THEN formDescription ELSE ""
           view  == loadFormEffect(forms, id, builderView(currentForm, title, desc))
       IN  /\ currentForm' = view.currentForm
           /\ formTitle' = view.formTitle
           /\ formDescription' = view.formDescription
    /\ IF route = "builder"
       THEN UNCHANGED <<selectedFieldId, draggedIndex, currentPage>>
       ELSE selectedFieldId' = Null /\ draggedIndex' = Null /\ currentPage' = 1
    /\ route' = "builder"
    /\ routeId' = id
    /\ publicUnmounted
    /\ UNCHANGED <<forms, responses, clock, toast>>

\* /form/:id, PublicForm.tsx 36-48
OpenPublic(id) ==
    /\ IsNull(draggedIndex)
    /\ ~(route = "public" /\ routeId = Some(id))
    /\ route' = "public"
    /\ routeId' = Some(id)
    /\ form' = getFormById(forms, id)
    /\ answers' = emptyMap
    /\ pfCurrentPage' = 1
    /\ isSubmitted' = FALSE
    /\ errors' = emptyMap
    /\ builderUnmounted
    /\ UNCHANGED <<storeVars, clock, toast>>

-----------------------------------------------------------------------------
(* The builder page: FormBuilder.tsx. *)

\* The handler left the store as st; rerun says whether it replaced the forms
\* array or the route's id, which reruns the load effect (616-630).
builderBecomes(st, id, rerun) ==
    LET view0 == builderView(st.currentForm, formTitle, formDescription)
        view  == IF rerun THEN loadFormEffect(st.forms, id, view0) ELSE view0
    IN  /\ forms' = st.forms
        /\ responses' = st.responses
        /\ currentForm' = view.currentForm
        /\ formTitle' = view.formTitle
        /\ formDescription' = view.formDescription

\* While a field is being dragged (from dragstart to dragend) the pointer
\* gives the page no other event than dragover.
editing == route = "builder" /\ IsNull(draggedIndex)

\* typing in the title box (setFormTitle), explored on a form not yet created
SetFormTitle(t) ==
    /\ editing
    /\ IsNull(currentForm)
    /\ t # formTitle
    /\ formTitle' = t
    /\ UNCHANGED <<storeVars, clock, route, routeId, selectedFieldId, draggedIndex,
                   formDescription, currentPage, publicVars, toast>>

\* handleAddField 632-640: no current form and a blank title
AddFieldNoTitle(type) ==
    /\ editing
    /\ IsNull(currentForm) /\ Trim(formTitle) = <<>>
    /\ toast' = Some("Please add a title")
    /\ UNCHANGED <<storeVars, clock, route, routeId, builderVars, publicVars>>

\* handleAddField 642-673: no current form and a title.  The form is created
\* and made current; addField is the callback of this render, whose
\* currentForm is still null.
AddFieldNewForm(type) ==
    /\ editing
    /\ IsNull(currentForm) /\ Trim(formTitle) # <<>>
    /\ Len(forms) < MaxForms
    /\ LET newForm  == createFormRecord(formTitle, formDescription, clock)
           newField == newFieldOf(type, currentPage, clock)
           st1 == createForm(theStore, formTitle, formDescription, clock)
           st2 == [st1 EXCEPT !.currentForm = Some(newForm)]
           st3 == addField(st2, currentForm, newField, clock)
       IN  /\ builderBecomes(st3, Some(newForm.id), TRUE)
           /\ routeId' = Some(newForm.id)
           /\ selectedFieldId' = Some(newField.id)
    /\ UNCHANGED <<clock, route, draggedIndex, currentPage, publicVars, toast>>

\* handleAddField 649-673 on the current form, explored while the form has
\* fewer than bound fields
AddFieldWithin(type, bound) ==
    /\ editing
    /\ ~IsNull(currentForm)
    /\ Len(Val(currentForm).fields) < bound
    /\ LET newField == newFieldOf(type, currentPage, clock)
       IN  /\ builderBecomes(addField(theStore, currentForm, newField, clock), routeId, TRUE)
           /\ selectedFieldId' = Some(newField.id)
    /\ UNCHANGED <<clock, route, routeId, draggedIndex, currentPage, publicVars,
                   toast>>

AddFieldCurrent(type) == AddFieldWithin(type, MaxFields)

\* the Copy button of a field of the active page, 1197-1201
CopyField(index) ==
    /\ editing
    /\ index \in 0..(Len(currentPageFields(currentForm, currentPage)) - 1)
    /\ Len(Val(currentForm).fields) < MaxFields
    /\ LET field == currentPageFields(currentForm, currentPage)[index + 1]
           newField == [field EXCEPT !.id = "field_" \o ToString(clock)]
       IN  builderBecomes(addField(theStore, currentForm, newField, clock), routeId, TRUE)
    /\ UNCHANGED <<clock, route, routeId, selectedFieldId, draggedIndex, currentPage,
                   publicVars, toast>>

\* the Remove button of a field of the active page, 1209-1215
RemoveFieldClick(index) ==
    /\ editing
    /\ index \in 0..(Len(currentPageFields(currentForm, currentPage)) - 1)
    /\ LET field == currentPageFields(currentForm, currentPage)[index + 1]
           sel == selectedField(currentForm, selectedFieldId)
       IN  /\ builderBecomes(removeField(theStore, currentForm, field.id, clock), routeId, TRUE)
           /\ selectedFieldId' = IF ~IsNull(sel) /\ Val(sel).id = field.id
                                 THEN Null ELSE selectedFieldId
    /\ UNCHANGED <<clock, route, routeId, draggedIndex, currentPage, publicVars, toast>>

\* clicking a field of the active page, 1159-1162
SelectField(index) ==
    /\ editing
    /\ index \in 0..(Len(currentPageFields(currentForm, currentPage)) - 1)
    /\ selectedFieldId' = Some(currentPageFields(currentForm, currentPage)[index + 1].id)
    /\ selectedFieldId' # selectedFieldId
    /\ UNCHANGED <<storeVars, clock, route, routeId, draggedIndex, formTitle,
                   formDescription, currentPage, publicVars, toast>>

\* the Required switch of the settings panel, 841
ToggleRequired ==
    /\ editing
    /\ ~IsNull(selectedField(currentForm, selectedFieldId))
    /\ LET sel == Val(selectedField(currentForm, selectedFieldId))
       IN  builderBecomes(updateField(theStore, currentForm, sel.id,
                                      [required |-> ~sel.required], clock), routeId, TRUE)
    /\ UNCHANGED <<clock, route, routeId, selectedFieldId, draggedIndex, currentPage,
                   publicVars, toast>>

\* handleDragStart 675-677, on the field shown at position index of the page
DragStart(index) ==
    /\ editing
    /\ index \in 0..(Len(currentPageFields(currentForm, currentPage)) - 1)
    /\ draggedIndex' = Some(index)
    /\ UNCHANGED <<storeVars, clock, route, routeId, selectedFieldId, formTitle,
                   formDescription, currentPage, publicVars, toast>>

\* handleDragOver 679-685
DragOver(index) ==
    /\ route = "builder"
    /\ index \in 0..(Len(currentPageFields(currentForm, currentPage)) - 1)
    /\ ~IsNull(draggedIndex) /\ Val(draggedIndex) # index
    /\ builderBecomes(reorderFields(theStore, currentForm, Val(draggedIndex), index, clock),
                      routeId, TRUE)
    /\ draggedIndex' = Some(index)
    /\ UNCHANGED <<clock, route, routeId, selectedFieldId, currentPage, publicVars, toast>>

\* handleDragEnd 687-689
DragEnd ==
    /\ route = "builder"
    /\ ~IsNull(draggedIndex)
    /\ draggedIndex' = Null
    /\ UNCHANGED <<storeVars, clock, route, routeId, selectedFieldId, formTitle,
                   formDescription, currentPage, publicVars, toast>>

\* the page arrows, 1057-1072
PrevPage ==
    /\ editing
    /\ currentPage # 1
    /\ currentPage' = Max2(1, currentPage - 1)
    /\ UNCHANGED <<storeVars, clock, route, routeId, selectedFieldId, draggedIndex,
                   formTitle, formDescription, publicVars, toast>>

NextPage ==
    /\ editing
    /\ currentPage # builderTotalPages(currentForm)
    /\ currentPage' = Min2(builderTotalPages(currentForm), currentPage + 1)
    /\ UNCHANGED <<storeVars, clock, route, routeId, selectedFieldId, draggedIndex,
                   formTitle, formDescription, publicVars, toast>>

\* Add Page, 1074-1088
AddPage ==
    /\ editing
    /\ builderTotalPages(currentForm) < MaxPages
    /\ currentPage' = builderTotalPages(currentForm) + 1
    /\ UNCHANGED <<storeVars, clock, route, routeId, selectedFieldId, draggedIndex,
                   formTitle, formDescription, publicVars, toast>>

\* Remove Page, 1089-1119; the button is rendered when totalPages > 1
RemovePage ==
    /\ editing
    /\ builderTotalPages(currentForm) > 1
    /\ IF removePageRejected(currentForm, currentPage)
       THEN /\ toast' = Some("Cannot remove page")
            /\ UNCHANGED <<storeVars, builderVars>>
       ELSE LET st == removePageLoop(theStore, currentForm, Val(currentForm).fields,
                                     currentPage, clock)
                called == \E i \in DOMAIN Val(currentForm).fields :
                              Val(currentForm).fields[i].pageNumber > currentPage
            IN  /\ builderBecomes(st, routeId, called)
                /\ currentPage' = Max2(1, currentPage - 1)
                /\ toast' = toast
                /\ UNCHANGED <<selectedFieldId, draggedIndex>>
    /\ UNCHANGED <<clock, route, routeId, publicVars>>

\* handleSave 691-699
HandleSave ==
    /\ editing
    /\ ~IsNull(currentForm)
    /\ builderBecomes(updateForm(theStore, currentForm, Val(currentForm).id,
                                 [title |-> formTitle, description |-> formDescription],
                                 clock), routeId, TRUE)
    /\ UNCHANGED <<clock, route, routeId, selectedFieldId, draggedIndex, currentPage,
                   publicVars, toast>>

-----------------------------------------------------------------------------
(* The dashboard: Dashboard.tsx. *)

\* the status switch of a row, 200-203
ToggleStatus(index) ==
    /\ route = "dashboard"
    /\ index \in DOMAIN forms
    /\ storeBecomes(toggleFormStatus(theStore, currentForm, forms[index].id, clock))
    /\ UNCHANGED <<clock, route, routeId, builderVars, publicVars, toast>>

\* handleDelete 91-97
HandleDelete(index) ==
    /\ route = "dashboard"
    /\ index \in DOMAIN forms
    /\ storeBecomes(deleteForm(theStore, currentForm, forms[index].id))
    /\ UNCHANGED <<clock, route, routeId, builderVars, publicVars, toast>>

-----------------------------------------------------------------------------
(* The respondent page: PublicForm.tsx.  Its handlers exist only on the    *)
(* screen that shows the fields (lines 50-98 return before them).          *)

\* handlers that exist on every screen of a form that was found
fillingWheneverFound == route = "public" /\ ~IsNull(form) /\ ~isSubmitted

filling == route = "public" /\ screen(form, isSubmitted) = "filling"

\* an updateAnswer that validates the page again with the new answer
updateAnswerRevalidating(fieldId, value) ==
    /\ answers' = put(answers, fieldId, value)
    /\ errors' = validateCurrentPage(Val(form), pfCurrentPage, put(answers, fieldId, value))
    /\ UNCHANGED <<storeVars, clock, route, routeId, builderVars, form, pfCurrentPage,
                   isSubmitted, toast>>

\* updateAnswer 162-171
updateAnswer(fieldId, value) ==
    /\ answers' = put(answers, fieldId, value)
    /\ errors' = IF fieldId \in DOMAIN errors THEN remove(errors, fieldId) ELSE errors
    /\ UNCHANGED <<storeVars, clock, route, routeId, builderVars, form, pfCurrentPage,
                   isSubmitted, toast>>

\* onChange of a text box of the page, e.g. 190: the box shows answers[id] || ''
TypeAnswer(index, chars) ==
    /\ filling
    /\ index \in 0..(Len(currentFields(Val(form), pfCurrentPage)) - 1)
    /\ LET field == currentFields(Val(form), pfCurrentPage)[index + 1]
           a == answerOf(answers, field.id)
       IN  /\ field.type \in TextLike
           /\ IF truthy(a) THEN Val(a) # Str(chars) ELSE chars # <<>>
           /\ updateAnswer(field.id, Str(chars))

\* onCheckedChange of one box of a checkbox group, 291-313; explored while the
\* answer under the field's id is absent, '' or an array
ToggleCheckbox(index, o) ==
    /\ filling
    /\ index \in 0..(Len(currentFields(Val(form), pfCurrentPage)) - 1)
    /\ LET field == currentFields(Val(form), pfCurrentPage)[index + 1]
           a == answerOf(answers, field.id)
           checkboxValues == IF truthy(a) THEN Val(a).v ELSE <<>>
       IN  /\ field.type = "checkbox"
           /\ o \in DOMAIN field.options
           /\ truthy(a) => Val(a).kind = "array"
           /\ LET value == field.options[o].value
                  checked == value \notin Range(checkboxValues)
                  newValues == IF checked THEN Append(checkboxValues, value)
                               ELSE SelectSeq(checkboxValues, LAMBDA v : v # value)
              IN  updateAnswer(field.id, Arr(newValues))

\* handleNext 124-138 with handleSubmit 146-160
HandleNext ==
    /\ filling
    /\ LET newErrors == validateCurrentPage(Val(form), pfCurrentPage, answers)
       IN  /\ errors' = newErrors
           /\ IF DOMAIN newErrors = {}
              THEN IF pfCurrentPage < totalPages(Val(form))
                   THEN /\ pfCurrentPage' = pfCurrentPage + 1
                        /\ UNCHANGED <<storeVars, isSubmitted, toast>>
                   ELSE /\ Len(responses) < MaxResponses
                        /\ storeBecomes(submitResponse(theStore, Val(form).id, answers, clock))
                        /\ isSubmitted' = TRUE
                        /\ UNCHANGED <<pfCurrentPage, toast>>
              ELSE /\ toast' = Some("Please fill in required fields")
                   /\ UNCHANGED <<storeVars, pfCurrentPage, isSubmitted>>
    /\ UNCHANGED <<clock, route, routeId, builderVars, form, answers>>

\* a Previous that first validates the page it leaves
HandlePrevValidated ==
    /\ filling
    /\ pfCurrentPage > 1
    /\ DOMAIN validateCurrentPage(Val(form), pfCurrentPage, answers) = {}
    /\ pfCurrentPage' = pfCurrentPage - 1
    /\ UNCHANGED <<storeVars, clock, route, routeId, builderVars, form, answers,
                   isSubmitted, errors, toast>>

\* handlePrev 140-144; the button is disabled on page 1
HandlePrev ==
    /\ filling
    /\ pfCurrentPage > 1
    /\ pfCurrentPage' = pfCurrentPage - 1
    /\ UNCHANGED <<storeVars, clock, route, routeId, builderVars, form, answers,
                   isSubmitted, errors, toast>>

-----------------------------------------------------------------------------
(* The application in one browser tab. *)

\* the identifiers a user can name in the address bar
KnownIds == {forms[i].id : i \in DOMAIN forms}

\* the identifiers explored: the stored forms but the first mock form, whose
\* five fields make the sessions long, and an identifier of no form
EditIds == (KnownIds \ {"1"}) \cup {UnknownId}

\* the positions of the fields the builder shows, and of those the respondent sees
pageIndices == 0..(Len(currentPageFields(currentForm, currentPage)) - 1)
shownIndices == IF filling THEN 0..(Len(currentFields(Val(form), pfCurrentPage)) - 1) ELSE {}
optionIndices == 1..Len(DefaultOptions)

Respondent ==
    \/ \E i \in shownIndices, chars \in TypedAnswers : TypeAnswer(i, chars)
    \/ \E i \in shownIndices, o \in optionIndices : ToggleCheckbox(i, o)
    \/ HandleNext
    \/ HandlePrev

\* An author opens the builder once, on a new form, a stored form or an
\* identifier of no form, and adds, copies and removes fields and pages.
NextPages ==
    \/ Tick
    \/ \E id \in EditIds : route = "index" /\ OpenBuilder(Some(id))
    \/ route = "index" /\ OpenBuilder(Null)
    \/ \E t \in TitleInputs : SetFormTitle(t)
    \/ \E type \in Palette : AddFieldNoTitle(type)
    \/ \E type \in Palette : AddFieldNewForm(type)
    \/ \E type \in Palette : AddFieldCurrent(type)
    \/ \E i \in pageIndices : CopyField(i)
    \/ \E i \in pageIndices : RemoveFieldClick(i)
    \/ PrevPage
    \/ NextPage
    \/ AddPage
    \/ RemovePage

SpecPages == Init /\ [][NextPages]_vars

\* An author may first edit the fields of a stored form and preview it, or
\* switch forms on and off or delete them; then a respondent opens a form and
\* fills it.
NextFlow ==
    \/ Tick
    \/ \E id \in EditIds : route = "index" /\ OpenBuilder(Some(id))
    \/ \E type \in Palette : AddFieldCurrent(type)
    \/ \E i \in pageIndices : RemoveFieldClick(i)
    \/ ToggleRequired
    \/ AddPage
    \/ route = "index" /\ OpenDashboard
    \/ \E i \in DOMAIN forms : ToggleStatus(i)
    \/ \E i \in DOMAIN forms : HandleDelete(i)
    \/ \E id \in EditIds :
          /\ route \in {"index", "dashboard"} \/ (route = "builder" /\ routeId = Some(id))
          /\ OpenPublic(id)
    \/ Respondent

SpecFlow == Init /\ [][NextFlow]_vars

\* An author opens the builder on a stored form, edits, reorders and saves
\* it, then goes to the dashboard and switches or deletes forms.
NextEdit ==
    \/ Tick
    \/ \E id \in EditIds : route = "index" /\ OpenBuilder(Some(id))
    \/ \E type \in Palette : AddFieldCurrent(type)
    \/ \E i \in pageIndices : RemoveFieldClick(i)
    \/ \E i \in pageIndices : SelectField(i)
    \/ ToggleRequired
    \/ \E i \in pageIndices : DragStart(i)
    \/ \E i \in pageIndices : DragOver(i)
    \/ DragEnd
    \/ PrevPage
    \/ AddPage
    \/ RemovePage
    \/ HandleSave
    \/ route = "builder" /\ OpenDashboard
    \/ \E i \in DOMAIN forms : ToggleStatus(i)
    \/ \E i \in DOMAIN forms : HandleDelete(i)

SpecEdit == Init /\ [][NextEdit]_vars

\* what is typed into an e-mail box: nothing, the two addresses of the spec's
\* scenario, and strings that miss one part of the shape
EmailInputs ==
    { <<>>,
      <<"a","@","b",".","c","o">>,
      <<"n","o","t","-","a","n","-","e","m","a","i","l">>,
      <<"a","@","b">>,
      <<"a",".","b","@","c">>,
      <<"a","@","@","b",".","c","o">>,
      <<"a"," ","b","@","c",".","d">>,
      <<"@","b",".","c","o">>,
      <<"a","@",".","c","o">>,
      <<"a","@","b",".">> }

\* the field shown at position index of the respondent's page
shownField(index) == currentFields(Val(form), pfCurrentPage)[index + 1]

\* An author may switch the Required flag of the fields of the second mock
\* form; then a respondent opens the form, types into its boxes and clicks
\* Next.
NextEmail ==
    \/ route = "index" /\ OpenBuilder(Some("2"))
    \/ \E i \in pageIndices : SelectField(i)
    \/ ToggleRequired
    \/ route \in {"index", "builder"} /\ OpenPublic("2")
    \/ \E i \in shownIndices, chars \in EmailInputs :
          shownField(i).type = "email" /\ TypeAnswer(i, chars)
    \/ \E i \in shownIndices :
          shownField(i).type # "email" /\ TypeAnswer(i, <<"a","@","b",".","c","o">>)
    \/ HandleNext

SpecEmail == Init /\ [][NextEmail]_vars

\* An author opens the builder on the third mock form, which has no field,
\* adds pages and text fields and drags the fields of the active page.
NextDrag ==
    \/ Tick
    \/ route = "index" /\ OpenBuilder(Some("3"))
    \/ AddFieldWithin("text", MaxDragFields)
    \/ PrevPage
    \/ NextPage
    \/ AddPage
    \/ \E i \in pageIndices : DragStart(i)
    \/ \E i \in pageIndices : DragOver(i)
    \/ DragEnd

SpecDrag == Init /\ [][NextDrag]_vars

\* An author goes from one builder address to another, by the address bar or
\* over the dashboard, and adds and removes fields.
NextRoutes ==
    \/ Tick
    \/ \E id \in EditIds : OpenBuilder(Some(id))
    \/ OpenBuilder(Null)
    \/ OpenDashboard
    \/ \E type \in Palette : AddFieldCurrent(type)
    \/ \E i \in pageIndices : RemoveFieldClick(i)

SpecRoutes == Init /\ [][NextRoutes]_vars

-----------------------------------------------------------------------------
(* The store called directly: a component that holds the context calls its *)
(* field operations, each call from a fresh render, on the form it made    *)
(* current.                                                                *)

StoreSetCurrentForm(index) ==
    /\ route = "index"
    /\ IsNull(currentForm)
    /\ index \in DOMAIN forms
    /\ currentForm' = Some(forms[index])
    /\ UNCHANGED <<forms, responses, clock, route, routeId, builderVars, publicVars, toast>>

StoreAddField(type) ==
    /\ route = "index"
    /\ ~IsNull(currentForm)
    /\ Len(Val(currentForm).fields) < MaxFields
    /\ storeBecomes(addField(theStore, currentForm, newFieldOf(type, 1, clock), clock))
    /\ UNCHANGED <<clock, route, routeId, builderVars, publicVars, toast>>

StoreRemoveField(index) ==
    /\ route = "index"
    /\ ~IsNull(currentForm)
    /\ index \in DOMAIN Val(currentForm).fields
    /\ storeBecomes(removeField(theStore, currentForm, Val(currentForm).fields[index].id, clock))
    /\ UNCHANGED <<clock, route, routeId, builderVars, publicVars, toast>>

StoreReorderFields(startIndex, endIndex) ==
    /\ route = "index"
    /\ ~IsNull(currentForm)
    /\ startIndex \in 0..(Len(Val(currentForm).fields) - 1)
    /\ endIndex \in 0..(Len(Val(currentForm).fields) - 1)
    /\ storeBecomes(reorderFields(theStore, currentForm, startIndex, endIndex, clock))
    /\ UNCHANGED <<clock, route, routeId, builderVars, publicVars, toast>>

StoreToggleFormStatus(formId) ==
    /\ route = "index"
    /\ storeBecomes(toggleFormStatus(theStore, currentForm, formId, clock))
    /\ UNCHANGED <<clock, route, routeId, builderVars, publicVars, toast>>

\* createForm with a title and a description as the builder passes them
StoreCreateForm(title, description) ==
    /\ route = "index"
    /\ Len(forms) < MaxForms
    /\ storeBecomes(createForm(theStore, title, description, clock))
    /\ UNCHANGED <<clock, route, routeId, builderVars, publicVars, toast>>

StoreDeleteForm(formId) ==
    /\ route = "index"
    /\ storeBecomes(deleteForm(theStore, currentForm, formId))
    /\ UNCHANGED <<clock, route, routeId, builderVars, publicVars, toast>>

StoreSubmitResponse(formId, ans) ==
    /\ route = "index"
    /\ Len(responses) < MaxResponses
    /\ storeBecomes(submitResponse(theStore, formId, ans, clock))
    /\ UNCHANGED <<clock, route, routeId, builderVars, publicVars, toast>>

\* the descriptions and the answers the direct calls pass
DescriptionInputs == {"Tell us"}
AnswerInputs == {[f1 |-> Str(<<"B", "o", "b">>)]}
\* the forms the direct calls of submitResponse name
SubmitIds == {"2", UnknownId}

\* the positions of the current form's fields
fieldIndices == IF IsNull(currentForm) THEN {} ELSE 0..(Len(Val(currentForm).fields) - 1)

NextStore ==
    \/ Tick
    \/ \E i \in DOMAIN forms : StoreSetCurrentForm(i)
    \/ \E type \in Palette : StoreAddField(type)
    \/ \E i \in fieldIndices : StoreRemoveField(i + 1)
    \/ \E i \in fieldIndices, j \in fieldIndices : StoreReorderFields(i, j)

SpecStore == Init /\ [][NextStore]_vars

\* The store's operations on whole forms and on responses, called directly.
NextForms ==
    \/ Tick
    \/ \E i \in DOMAIN forms : StoreSetCurrentForm(i)
    \/ \E id \in EditIds : StoreToggleFormStatus(id)
    \/ \E t \in TitleInputs, d \in DescriptionInputs : StoreCreateForm(t, d)
    \/ \E id \in EditIds : StoreDeleteForm(id)
    \/ \E id \in SubmitIds, a \in AnswerInputs : StoreSubmitResponse(id, a)

SpecForms == Init /\ [][NextForms]_vars

\* the current form's fields, none when there is no current form
fieldsOf(cf) == IF IsNull(cf) THEN <<>> ELSE Val(cf).fields

\* an identifier of no field
UnknownFieldId == "field_0"

\* the ids of the current form's fields
currentFieldIds == {fieldsOf(currentForm)[i].id : i \in DOMAIN fieldsOf(currentForm)}

\* updateField called with or without a current form, with the id of one of
\* its fields or of none
StoreUpdateField(fieldId, updates) ==
    /\ route = "index"
    /\ storeBecomes(updateField(theStore, currentForm, fieldId, updates, clock))
    /\ UNCHANGED <<clock, route, routeId, builderVars, publicVars, toast>>

\* the updates the direct calls pass
FieldUpdates == {[required |-> b] : b \in BOOLEAN}

\* updateField called directly on the form made current
NextFields ==
    \/ Tick
    \/ \E i \in DOMAIN forms : StoreSetCurrentForm(i)
    \/ \E id \in currentFieldIds \cup {UnknownFieldId}, u \in FieldUpdates :
          StoreUpdateField(id, u)

SpecFields == Init /\ [][NextFields]_vars

-----------------------------------------------------------------------------
(* Page removal and field identity in the builder, checked under SpecPages. *)

\* the active page carries no field of the current form
pageIsEmpty == \A i \in DOMAIN fieldsOf(currentForm) :
                   fieldsOf(currentForm)[i].pageNumber # currentPage

\* a click on Remove Page that the builder accepts
RemovePageAccepted == RemovePage /\ pageIsEmpty

\* C1: after an accepted removal of page P every field that sat on a page
\* above P sits one page lower and every other field keeps its page.
C1_RemovePageShiftsHigherPages ==
    [][RemovePageAccepted =>
         /\ Len(fieldsOf(currentForm')) = Len(fieldsOf(currentForm))
         /\ \A i \in DOMAIN fieldsOf(currentForm) :
                fieldsOf(currentForm')[i].pageNumber =
                    IF fieldsOf(currentForm)[i].pageNumber > currentPage
                    THEN fieldsOf(currentForm)[i].pageNumber - 1
                    ELSE fieldsOf(currentForm)[i].pageNumber]_vars

\* the largest pageNumber among the fields, 1 when there is none
maxPageNumber(fs) ==
    IF fs = <<>> THEN 1
    ELSE CHOOSE m \in {fs[i].pageNumber : i \in DOMAIN fs} :
             \A i \in DOMAIN fs : fs[i].pageNumber <= m

\* C2: for every stored form the page count of the builder and the page count
\* of the respondent view both equal the largest pageNumber of its fields
\* (1 for a form without fields).
C2_TotalPagesIsMaxPageNumber ==
    \A i \in DOMAIN forms :
        /\ builderTotalPages(Some(forms[i])) = maxPageNumber(forms[i].fields)
        /\ totalPages(forms[i]) = maxPageNumber(forms[i].fields)

\* C3: an accepted removal of a page leaves the form with exactly one page
\* less than it had.
C3_RemovePageDropsOnePage ==
    [][RemovePageAccepted =>
         builderTotalPages(currentForm') = builderTotalPages(currentForm) - 1]_vars

\* C4: a click on Remove Page while the active page carries a field is
\* refused: the fields with their page numbers, the stored forms and the
\* active page stay as they were.
C4_RemoveNonEmptyPageRejected ==
    [][(RemovePage /\ ~pageIsEmpty) =>
         /\ currentForm' = currentForm
         /\ forms' = forms
         /\ currentPage' = currentPage
         /\ toast' = Some("Cannot remove page")]_vars

\* a refused removal happened on a form of more than one page
C4_Witness ==
    /\ route = "builder"
    /\ toast = Some("Cannot remove page")
    /\ builderTotalPages(currentForm) > 1
    /\ ~pageIsEmpty

\* C9: within each form, stored or current, no two fields share an id, also
\* when two fields were made at one reading of the clock.
C9_FieldIdsUnique ==
    /\ \A k \in DOMAIN forms : \A i, j \in DOMAIN forms[k].fields :
           forms[k].fields[i].id = forms[k].fields[j].id => i = j
    /\ \A i, j \in DOMAIN fieldsOf(currentForm) :
           fieldsOf(currentForm)[i].id = fieldsOf(currentForm)[j].id => i = j

-----------------------------------------------------------------------------
(* The respondent flow, checked under SpecFlow. *)

\* the field is required and its answer is absent, '' or the empty list
requiredEmpty(f, ans) == f.required /\ (f.id \in DOMAIN ans => ans[f.id].v = <<>>)

\* no two fields of the form share an id
distinctIds(fs) == \A i, j \in DOMAIN fs : fs[i].id = fs[j].id => i = j

\* C5: Next on a page that shows a required field whose answer is absent, ''
\* or the empty list keeps the page, submits nothing and records
\* "<label> is required" under the field's id.  Stated for the forms whose
\* fields have distinct ids, where one error per field can be recorded.
C5_RequiredEmptyBlocksNext ==
    [][(HandleNext /\ distinctIds(Val(form).fields)) =>
         \A i \in DOMAIN Val(form).fields :
             LET f == Val(form).fields[i]
             IN  (f.pageNumber = pfCurrentPage /\ requiredEmpty(f, answers)) =>
                     /\ pfCurrentPage' = pfCurrentPage
                     /\ responses' = responses
                     /\ isSubmitted' = FALSE
                     /\ f.id \in DOMAIN errors'
                     /\ errors'[f.id] = f.label \o " is required"]_vars

\* C6: Next on the last page, the page being valid, appends one response with
\* the session's answers and shows the thank-you screen; from then on the
\* session changes neither the page, nor the answers, nor the responses.
C6_SubmitOnceThenTerminal ==
    [][/\ (/\ HandleNext
           /\ pfCurrentPage >= totalPages(Val(form))
           /\ DOMAIN validateCurrentPage(Val(form), pfCurrentPage, answers) = {})
          => /\ Len(responses') = Len(responses) + 1
             /\ SubSeq(responses', 1, Len(responses)) = responses
             /\ responses'[Len(responses')].formId = Val(form).id
             /\ responses'[Len(responses')].answers = answers
             /\ isSubmitted' = TRUE
       /\ (route = "public" /\ isSubmitted)
          => /\ pfCurrentPage' = pfCurrentPage
             /\ answers' = answers
             /\ responses' = responses
             /\ isSubmitted' = TRUE]_vars

\* a session on a form of two pages ended with its response stored last
C6_Witness ==
    /\ route = "public"
    /\ isSubmitted
    /\ pfCurrentPage = 2
    /\ Len(responses) = Len(mockResponses) + 1
    /\ responses[Len(responses)].formId = Val(form).id
    /\ responses[Len(responses)].answers = answers

\* C7: no response is appended whose formId names a form that is inactive
\* when the response is appended.
C7_NoResponseForInactiveForm ==
    [][responses' # responses =>
         /\ Len(responses') = Len(responses) + 1
         /\ \A i \in DOMAIN forms :
                forms[i].id = responses'[Len(responses')].formId
                    => forms[i].status = "active"]_vars

\* a respondent is on the address of an inactive form that has fields
C7_Witness ==
    /\ route = "public"
    /\ ~IsNull(form)
    /\ Val(form).status = "inactive"
    /\ Val(form).fields # <<>>

\* the address of the respondent page names no stored form or an inactive one
notOpen ==
    /\ route = "public"
    /\ LET f == getFormById(forms, Val(routeId))
       IN  IsNull(f) \/ Val(f).status = "inactive"

\* C8: on the address of an unknown or inactive form the component shows the
\* not-found or the unavailable screen, never the fields, and nothing of the
\* session or of the responses changes.
C8_ClosedFormNeverFilling ==
    /\ [](notOpen => screen(form, isSubmitted) \in {"not_found", "unavailable"})
    /\ [][notOpen => UNCHANGED <<form, answers, pfCurrentPage, isSubmitted, errors,
                                 responses>>]_vars

\* a respondent is on an address that names no form
C8_Witness ==
    /\ route = "public"
    /\ routeId = Some(UnknownId)
    /\ IsNull(form)
    /\ screen(form, isSubmitted) = "not_found"

-----------------------------------------------------------------------------
(* The store's reorderFields, checked under SpecStore. *)

\* the sequence without its k-th element
withoutAt(s, k) == SubSeq(s, 1, k - 1) \o SubSeq(s, k + 1, Len(s))

\* C10: reorderFields(i, j) on a current form of n fields, i and j in 0..n-1,
\* puts the element of position i at position j and leaves the other elements
\* in their order, in the current form and in its stored copy; no element is
\* lost or added.
C10_ReorderMovesOneElement ==
    [][\A i \in fieldIndices, j \in fieldIndices :
           StoreReorderFields(i, j) =>
               LET old == fieldsOf(currentForm)
                   new == fieldsOf(currentForm')
               IN  /\ Len(new) = Len(old)
                   /\ new[j + 1] = old[i + 1]
                   /\ withoutAt(new, j + 1) = withoutAt(old, i + 1)
                   /\ Val(getFormById(forms', Val(currentForm).id)).fields = new]_vars

\* the first field of the second mock form was moved behind its two others
C10_Witness ==
    /\ ~IsNull(currentForm)
    /\ Val(currentForm).id = "2"
    /\ [i \in DOMAIN fieldsOf(currentForm) |-> fieldsOf(currentForm)[i].id]
           = <<"f2", "f3", "f1">>
    /\ forms[2].fields = fieldsOf(currentForm)

\* C11: for in-range indices i and j, reorderFields(i, j) followed, from the
\* next render, by reorderFields(j, i) gives back the field order it started
\* from, in the current form and in its stored copy.
C11_ReorderThenInverseRestores ==
    \A i \in fieldIndices, j \in fieldIndices :
        LET st1 == reorderFields(theStore, currentForm, i, j, clock)
            st2 == reorderFields(st1, st1.currentForm, j, i, clock)
        IN  /\ fieldsOf(st2.currentForm) = fieldsOf(currentForm)
            /\ Val(getFormById(st2.forms, Val(currentForm).id)).fields
                   = Val(getFormById(forms, Val(currentForm).id)).fields

\* the last field of the second mock form was moved in front of its two others
C11_Witness ==
    /\ ~IsNull(currentForm)
    /\ Val(currentForm).id = "2"
    /\ [i \in DOMAIN fieldsOf(currentForm) |-> fieldsOf(currentForm)[i].id]
           = <<"f3", "f1", "f2">>
    /\ forms[2].fields = fieldsOf(currentForm)

-----------------------------------------------------------------------------
(* The store's operations on whole forms and responses, checked under      *)
(* SpecForms.                                                              *)

\* the other of the two statuses
otherStatus(status) == IF status = "active" THEN "inactive" ELSE "active"

\* the statuses of the stored forms, in order
statuses(fs) == [k \in DOMAIN fs |-> fs[k].status]

\* C12: toggleFormStatus on the id of a stored form turns active into
\* inactive and inactive into active and touches no other form's status, a
\* second application gives back the statuses it started from, and on an id
\* of no form it changes neither the forms nor the current form.
C12_ToggleFlipsAndTwiceRestores ==
    /\ [](\A id \in KnownIds :
              LET st1 == toggleFormStatus(theStore, currentForm, id, clock)
                  st2 == toggleFormStatus(st1, st1.currentForm, id, clock)
              IN  /\ statuses(st2.forms) = statuses(forms)
                  /\ statuses(st1.forms) # statuses(forms))
    /\ [][\A id \in EditIds :
              StoreToggleFormStatus(id) =>
                  IF id \in KnownIds
                  THEN /\ Len(forms') = Len(forms)
                       /\ \A k \in DOMAIN forms :
                              /\ forms[k].status \in {"active", "inactive"}
                              /\ forms'[k].status =
                                     IF forms[k].id = id THEN otherStatus(forms[k].status)
                                     ELSE forms[k].status
                              /\ forms'[k].id = forms[k].id
                              /\ forms'[k].fields = forms[k].fields
                       /\ (~IsNull(currentForm) /\ Val(currentForm).id = id)
                              => Val(currentForm').status = otherStatus(Val(currentForm).status)
                  ELSE forms' = forms /\ currentForm' = currentForm]_vars

-----------------------------------------------------------------------------
(* The builder's palette on a form without title, checked under SpecPages. *)

\* the title box is empty or holds white space only
blankTitle == \A k \in DOMAIN formTitle : IsSpace(formTitle[k])

\* a click on an entry of the palette
PaletteClick ==
    \E type \in Palette :
        AddFieldNoTitle(type) \/ AddFieldNewForm(type) \/ AddFieldCurrent(type)

\* C14: a click on a palette entry while there is no current form and the
\* title is empty or white space only adds nothing: the stored forms are
\* unchanged, there is still no current form, and the notice "Please add a
\* title" is shown.
C14_BlankTitleAddsNothing ==
    [][(IsNull(currentForm) /\ blankTitle /\ PaletteClick) =>
         /\ forms' = forms
         /\ currentForm' = currentForm
         /\ toast' = Some("Please add a title")]_vars

\* the palette was clicked on a new form whose title is one space
C14_Witness ==
    /\ route = "builder"
    /\ IsNull(currentForm)
    /\ formTitle = <<" ">>
    /\ toast = Some("Please add a title")
    /\ forms = mockForms

-----------------------------------------------------------------------------
(* Responses and deletion, checked under SpecForms. *)

\* C15: no two stored responses share an id, also when two of them were
\* submitted at one reading of the clock.
C15_ResponseIdsUnique ==
    \A a, b \in DOMAIN responses : responses[a].id = responses[b].id => a = b

-----------------------------------------------------------------------------
(* The current form and its stored copy, checked under SpecEdit. *)

\* C16: whenever there is a current form, the collection holds a form with
\* its id, and that form has the same fields in the same order, the same
\* title, the same description and the same status.
C16_CurrentFormMatchesStored ==
    ~IsNull(currentForm) =>
        LET stored == getFormById(forms, Val(currentForm).id)
        IN  /\ ~IsNull(stored)
            /\ Val(stored).fields = Val(currentForm).fields
            /\ Val(stored).title = Val(currentForm).title
            /\ Val(stored).description = Val(currentForm).description
            /\ Val(stored).status = Val(currentForm).status

\* the second mock form (three fields, active) was edited in the builder and
\* switched off on the dashboard while it was the current form
C16_Witness ==
    /\ route = "dashboard"
    /\ ~IsNull(currentForm)
    /\ Val(currentForm).id = "2"
    /\ Val(currentForm).status = "inactive"
    /\ Len(Val(currentForm).fields) = 2
    /\ \E i \in DOMAIN Val(currentForm).fields : Val(currentForm).fields[i].pageNumber = 2

\* C17: deleteForm(formId) leaves the collection without the forms of that
\* id and with all others in their order; the current form is cleared when
\* it had that id and is unchanged otherwise, so that a current form is
\* always a form of the collection; the responses are untouched.
C17_DeleteFormRemovesAndClears ==
    [][\A id \in EditIds :
           StoreDeleteForm(id) =>
               /\ forms' = SelectSeq(forms, LAMBDA f : f.id # id)
               /\ \A k \in DOMAIN forms' : forms'[k].id # id
               /\ currentForm' = IF ~IsNull(currentForm) /\ Val(currentForm).id = id
                                 THEN Null ELSE currentForm
               /\ ~IsNull(currentForm') =>
                      \E k \in DOMAIN forms' : forms'[k].id = Val(currentForm').id
               /\ responses' = responses]_vars

\* the second mock form was deleted while the third was the current form
C17_Witness ==
    /\ \A k \in DOMAIN forms : forms[k].id # "2"
    /\ \E k \in DOMAIN forms : forms[k].id = "1"
    /\ ~IsNull(currentForm)
    /\ Val(currentForm).id = "3"

-----------------------------------------------------------------------------
(* The response collection in the application, checked under SpecFlow. *)

\* C18: the responses change only by one response being appended, and only
\* in the step in which a respondent on the last page of the form submits;
\* no other step, the deletion of a form that has responses included, changes
\* or removes a response.
C18_ResponsesAppendOnly ==
    [][responses' # responses =>
         /\ Len(responses') = Len(responses) + 1
         /\ SubSeq(responses', 1, Len(responses)) = responses
         /\ route = "public"
         /\ ~IsNull(form)
         /\ pfCurrentPage = totalPages(Val(form))
         /\ ~isSubmitted /\ isSubmitted'
         /\ responses'[Len(responses')].formId = Val(form).id
         /\ responses'[Len(responses')].answers = answers]_vars

\* the first mock form was deleted, its two responses are still stored, and
\* a respondent has submitted another form
C18_Witness ==
    /\ \A k \in DOMAIN forms : forms[k].id # "1"
    /\ SubSeq(responses, 1, Len(mockResponses)) = mockResponses
    /\ Len(responses) = Len(mockResponses) + 1
    /\ route = "public"
    /\ isSubmitted

\* every field of the page passes: a required one has an answer that is not
\* '' and not the empty list, an e-mail one that has an answer has one of the
\* shape of an address
pageValidates(fm, page, ans) ==
    \A i \in DOMAIN fm.fields :
        LET f == fm.fields[i]
        IN  f.pageNumber = page =>
                /\ ~requiredEmpty(f, ans)
                /\ (f.type = "email" /\ f.id \in DOMAIN ans /\ ans[f.id].v # <<>>)
                       => emailRegexTest(toString(ans[f.id]))

\* C19: while a respondent fills an active form the page shown is one of
\* 1..totalPages, and a step that moves the session forward moves it by one
\* page, from a page below totalPages, all of whose fields pass.  Stated for
\* the forms whose fields have distinct ids.
C19_PageInRangeAndNextGated ==
    /\ [](filling => pfCurrentPage \in 1..totalPages(Val(form)))
    /\ [][(filling /\ distinctIds(Val(form).fields) /\ route' = "public"
             /\ pfCurrentPage' > pfCurrentPage) =>
            /\ pfCurrentPage' = pfCurrentPage + 1
            /\ pfCurrentPage < totalPages(Val(form))
            /\ pageValidates(Val(form), pfCurrentPage, answers)]_vars

\* C20: on a page above 1 Previous is there to take, whether the page passes
\* validation or not, and takes the session one page back; on page 1 it does
\* nothing; a step back leaves the answers and the responses as they were.
C20_PreviousGoesBackKeepingAnswers ==
    /\ []((filling /\ pfCurrentPage > 1) => ENABLED HandlePrev)
    /\ []((filling /\ pfCurrentPage = 1) => ~ENABLED HandlePrev)
    /\ [][(route = "public" /\ route' = "public" /\ pfCurrentPage' < pfCurrentPage) =>
            /\ pfCurrentPage > 1
            /\ pfCurrentPage' = pfCurrentPage - 1
            /\ answers' = answers
            /\ responses' = responses]_vars

\* the respondent is back on page 1 and the errors of a field of page 2, set
\* by a refused Next on page 2, are still recorded
C20_Witness ==
    /\ filling
    /\ pfCurrentPage = 1
    /\ \E i \in DOMAIN Val(form).fields :
           /\ Val(form).fields[i].pageNumber = 2
           /\ Val(form).fields[i].id \in DOMAIN errors
    /\ \A i \in DOMAIN Val(form).fields :
           Val(form).fields[i].pageNumber = 1 => Val(form).fields[i].id \notin DOMAIN errors

\* the field is an e-mail field whose answer is non-empty and not of the shape
\* of an address
emailMalformed(f, ans) ==
    /\ f.type = "email"
    /\ f.id \in DOMAIN ans
    /\ ans[f.id].v # <<>>
    /\ ~emailRegexTest(toString(ans[f.id]))

\* C21: a Next whose validation fails records, in that one step, an error for
\* every field of the page that is required and empty or is an e-mail field
\* with a malformed answer, and for no field of the page that passes.  Stated
\* for the forms whose fields have distinct ids.
C21_FailedNextCollectsAllErrors ==
    [][(HandleNext /\ DOMAIN errors' # {} /\ distinctIds(Val(form).fields)) =>
         \A i \in DOMAIN Val(form).fields :
             LET f == Val(form).fields[i]
             IN  f.pageNumber = pfCurrentPage =>
                     (f.id \in DOMAIN errors'
                          <=> (requiredEmpty(f, answers) \/ emailMalformed(f, answers)))]_vars

-----------------------------------------------------------------------------
(* The e-mail check, under SpecEmail. *)

\* where the "@" signs of s are
atPositions(s) == {k \in DOMAIN s : s[k] = "@"}

\* s is a local part, one "@" and a domain, without white space; the local
\* part is not empty and the domain has a "." with something on both sides
emailShape(s) ==
    /\ Cardinality(atPositions(s)) = 1
    /\ \A k \in DOMAIN s : ~IsSpace(s[k])
    /\ LET at == CHOOSE k \in atPositions(s) : TRUE
           domain == SubSeq(s, at + 1, Len(s))
       IN  /\ at > 1
           /\ \E d \in DOMAIN domain : domain[d] = "." /\ 1 < d /\ d < Len(domain)

\* C22: Next on a page that shows an e-mail field with a non-empty answer
\* records "Please enter a valid email address" for the field, keeps the page
\* and submits nothing exactly when the answer has not the shape of an
\* address, and records no error for the field when it has; an e-mail field
\* that is not required and has no answer or the empty one gets no error.
C22_EmailShapeGatesNext ==
    [][HandleNext =>
         \A i \in DOMAIN Val(form).fields :
             LET f == Val(form).fields[i]
                 blocked == /\ f.id \in DOMAIN errors'
                            /\ errors'[f.id] = "Please enter a valid email address"
                            /\ pfCurrentPage' = pfCurrentPage
                            /\ responses' = responses
                            /\ ~isSubmitted'
             IN  (f.type = "email" /\ f.pageNumber = pfCurrentPage) =>
                     IF f.id \in DOMAIN answers /\ answers[f.id].v # <<>>
                     THEN /\ blocked <=> ~emailShape(answers[f.id].v)
                          /\ emailShape(answers[f.id].v) => f.id \notin DOMAIN errors'
                     ELSE ~f.required => f.id \notin DOMAIN errors']_vars

\* Next was refused for "a@b" alone: the other boxes are filled and the
\* e-mail field carries the only error
C22_Witness ==
    /\ filling
    /\ "f2" \in DOMAIN answers
    /\ answers["f2"] = Str(<<"a","@","b">>)
    /\ DOMAIN errors = {"f2"}
    /\ errors["f2"] = "Please enter a valid email address"
    /\ "f1" \in DOMAIN answers

-----------------------------------------------------------------------------
(* Answers and errors, under SpecFlow. *)

\* the respondent's session goes on at the same address
sessionStep == route = "public" /\ route' = "public" /\ routeId' = routeId

\* C23: a step of the session that enters an answer stores it under one
\* field id, removes the error recorded under that id and nothing else from
\* the errors, whether the new answer is valid or not, and keeps the page.
C23_AnswerClearsOwnErrorOnly ==
    [][(sessionStep /\ answers' # answers) =>
         \E id \in DOMAIN answers' :
             /\ \A k \in DOMAIN answers' \ {id} : k \in DOMAIN answers /\ answers'[k] = answers[k]
             /\ DOMAIN answers \subseteq DOMAIN answers'
             /\ DOMAIN errors' = DOMAIN errors \ {id}
             /\ \A k \in DOMAIN errors' : errors'[k] = errors[k]
             /\ pfCurrentPage' = pfCurrentPage]_vars

\* after a refused Next a malformed address was typed into a required e-mail
\* box: the box has no error any more, another field still has its own
C23_Witness ==
    /\ filling
    /\ \E i, j \in DOMAIN Val(form).fields :
           LET f == Val(form).fields[i]
               g == Val(form).fields[j]
           IN  /\ f.id # g.id
               /\ f.pageNumber = pfCurrentPage
               /\ g.pageNumber = pfCurrentPage
               /\ f.required
               /\ emailMalformed(f, answers)
               /\ f.id \notin DOMAIN errors
               /\ g.id \in DOMAIN errors

-----------------------------------------------------------------------------
(* Field operations that have nothing to act on, under SpecFields. *)

\* the fields a direct call may pass
someFields == {newFieldOf(type, 1, clock) : type \in Palette}

\* C24: updateField with an id of no field of the current form leaves the
\* stored forms and the current form as they were; so does every field
\* operation called while there is no current form.
C24_NothingToActOnIsNoOp ==
    /\ [][(\E u \in FieldUpdates : StoreUpdateField(UnknownFieldId, u)) =>
            (forms' = forms /\ currentForm' = currentForm)]_vars
    /\ [](IsNull(currentForm) =>
            /\ \A f \in someFields : addField(theStore, currentForm, f, clock) = theStore
            /\ \A id \in {"f1", UnknownFieldId}, u \in FieldUpdates :
                   updateField(theStore, currentForm, id, u, clock) = theStore
            /\ \A id \in {"f1", UnknownFieldId} :
                   removeField(theStore, currentForm, id, clock) = theStore
            /\ \A a, b \in 0..1 :
                   reorderFields(theStore, currentForm, a, b, clock) = theStore)

-----------------------------------------------------------------------------
(* What a stored response holds and which pages the respondent sees, under *)
(* SpecFlow.                                                               *)

\* C25: a response appended by the respondent's session holds, for every
\* required field of the session's form, on whatever page the field sits, an
\* answer that is not '' and not the empty list.
C25_ResponseAnswersRequiredFields ==
    [][(sessionStep /\ responses' # responses) =>
         LET r == responses'[Len(responses')]
         IN  \A i \in DOMAIN Val(form).fields :
                 LET f == Val(form).fields[i]
                 IN  f.required => (f.id \in DOMAIN r.answers /\ r.answers[f.id].v # <<>>)]_vars

\* C26: in every stored form each field sits on a page the respondent is
\* shown, one of 1..totalPages of the respondent's page count.
C26_EveryFieldOnVisitedPage ==
    \A k \in DOMAIN forms :
        \A i \in DOMAIN forms[k].fields :
            forms[k].fields[i].pageNumber \in 1..totalPages(forms[k])

-----------------------------------------------------------------------------
(* The first field of a new form and the drag of a field, in the builder. *)

\* C27: a click on a palette entry while there is no current form and the
\* title is not blank appends one form to the stored ones, makes it the
\* current form, and the field made by the click is among its fields.
C27_FirstFieldLandsInNewForm ==
    [][(IsNull(currentForm) /\ ~blankTitle /\ PaletteClick) =>
         /\ Len(forms') = Len(forms) + 1
         /\ currentForm' = Some(forms'[Len(forms')])
         /\ \E type \in Palette :
                newFieldOf(type, currentPage, clock) \in Range(forms'[Len(forms')].fields)]_vars

\* where in fs the field shown at position n (from 0) of the page sits
globalIndex(fs, page, n) ==
    CHOOSE k \in DOMAIN fs :
        /\ fs[k].pageNumber = page
        /\ Cardinality({j \in 1..k : fs[j].pageNumber = page}) = n + 1

\* C28: dragging the field shown at position a of the active page over the
\* field shown at position b puts the dragged field where the other field
\* sat in the form's field sequence, and every field of another page stays
\* where it sat.
C28_DragMovesShownFieldOnly ==
    [][(\E b \in pageIndices : DragOver(b)) =>
         LET fs == Val(currentForm).fields
             a == Val(draggedIndex)
             b == Val(draggedIndex')
             from == globalIndex(fs, currentPage, a)
             to == globalIndex(fs, currentPage, b)
         IN  /\ Len(fieldsOf(currentForm')) = Len(fs)
             /\ fieldsOf(currentForm')[to] = fs[from]
             /\ \A k \in DOMAIN fs :
                    fs[k].pageNumber # currentPage => fieldsOf(currentForm')[k] = fs[k]]_vars

-----------------------------------------------------------------------------
(* What the operations on one form leave alone, under SpecEdit. *)

\* a click of the builder that calls addField, updateField, removeField,
\* reorderFields or updateForm on the current form
builderOperation ==
    /\ ~IsNull(currentForm)
    /\ \/ \E type \in Palette : AddFieldCurrent(type)
       \/ \E i \in pageIndices : RemoveFieldClick(i)
       \/ ToggleRequired
       \/ \E i \in pageIndices : DragOver(i)
       \/ RemovePage
       \/ HandleSave

\* the step keeps the forms in their order, every form of another id than
\* formId as it was, the current form if it has another id, and the responses
onlyFormChanges(formId) ==
    /\ Len(forms') = Len(forms)
    /\ \A k \in DOMAIN forms :
           /\ forms'[k].id = forms[k].id
           /\ forms[k].id # formId => forms'[k] = forms[k]
    /\ (~IsNull(currentForm) /\ Val(currentForm).id # formId) => currentForm' = currentForm
    /\ responses' = responses

\* C29: updateForm, toggleFormStatus, addField, updateField, removeField and
\* reorderFields change the form of the id they are given, or the current
\* form, and nothing else: the other stored forms, the order of the forms
\* and the responses stay as they were.
C29_OperationsTouchOneForm ==
    [][/\ builderOperation => onlyFormChanges(Val(currentForm).id)
       /\ \A i \in DOMAIN forms : ToggleStatus(i) => onlyFormChanges(forms[i].id)]_vars

\* the second mock form was edited in the builder and switched off on the
\* dashboard; the first and the third form and the responses are the mock data
C29_Witness ==
    /\ route = "dashboard"
    /\ Len(forms) = 3
    /\ forms[2].id = "2"
    /\ forms[2].fields # mockForms[2].fields
    /\ forms[2].status = "inactive"
    /\ forms[1] = mockForms[1]
    /\ forms[3] = mockForms[3]
    /\ responses = mockResponses

-----------------------------------------------------------------------------
(* The builder on an address of no form, under SpecRoutes. *)

\* the builder's address names a form that is not stored
addressOfNoForm ==
    /\ route = "builder"
    /\ ~IsNull(routeId)
    /\ IsNull(getFormById(forms, Val(routeId)))

\* C30: while the builder's address names no stored form there is no current
\* form, and a field operation of the builder changes no form but the one
\* its address names.
C30_UnknownIdLeavesNoCurrentForm ==
    /\ [](addressOfNoForm => IsNull(currentForm))
    /\ [][(route = "builder" /\ ~IsNull(routeId) /\ builderOperation) =>
            onlyFormChanges(Val(routeId))]_vars

====
